---- MODULE Spec2Model ----
(***************************************************************************)
(* A model of the user-error crate: the UserFacingError struct of lib.rs   *)
(* (construction, error conversions, mutators and its Display rendering)   *)
(* and the UserError struct of implementation.rs / string_errors.rs.       *)
(*                                                                         *)
(* A Rust String is a sequence of tokens (a token is a character or one    *)
(* escape code).  Option<T> is a sequence of length at most one: None is   *)
(* the empty sequence and Some(x) is <<x>>.  A foreign error (dyn Error)   *)
(* is a record of its display text and its optional source.               *)
(***************************************************************************)
EXTENDS Integers, Sequences, FiniteSets, TLC

VARIABLES
    err,    \* the error value the program holds (NoMessage before any is built)
    prev,   \* history: the value the last mutator was applied to
    last,   \* history: the last operation and its argument
    trail,  \* history: the arguments of the reason() calls made since new(),
            \* or of the add_reason() calls made since simple()
    pc,     \* "run"; "exiting" inside print_and_exit; "exit" once the process
            \* has exited; "panic" once an operation panicked; "error_sources"
            \* inside the loop of error_sources; "walked" once it has returned
    written,   \* what the last operation wrote to the standard error stream
    returned,  \* the String the last operation returned, if it returned one
    exit_code,  \* the exit status of the process, once it has exited
    walk    \* the locals of a running or finished call of error_sources

vars == <<err, prev, last, trail, pc, written, returned, exit_code, walk>>

(***************************************************************************)
(* Bounds and input sets                                                   *)
(***************************************************************************)
MaxReasons == 2

MaxSubtleties == 1

MaxChain == 2

None == <<>>

Some(x) == <<x>>

\* The strings handed to the operations: the empty string and two texts.
Strings == {<<>>, <<"a">>, <<"b">>}

\* The display texts of foreign errors.
ErrTexts == {<<"a">>, <<"b">>}

\* Whether the colorful crate emits escape codes (it depends on the terminal).
Colors == BOOLEAN

\* What the first command line argument's file stem can be (None: no such stem).
ProcNames == {None, Some(<<"prog">>)}

SeqsUpTo(S, n) == UNION {[1..k -> S] : k \in 0..n}

RECURSIVE ErrorsUpTo(_)
ErrorsUpTo(n) ==
    IF n = 0
    THEN [display : ErrTexts, source : {None}]
    ELSE [display : ErrTexts,
          source : {None} \cup {Some(c) : c \in ErrorsUpTo(n - 1)}]

\* Every foreign error whose causal chain has depth at most MaxChain.
Errors == ErrorsUpTo(MaxChain)

\* Result<T, Box<dyn Error>>
Results == {[ok |-> TRUE]} \cup {[ok |-> FALSE, error |-> e] : e \in Errors}

(***************************************************************************)
(* lib.rs: constants                                                       *)
(***************************************************************************)
NL == "\n"

SUMMARY_PREFIX == <<"ESC[97;41;22m", "Error:", "ESC[91;49;1m", " ">>

REASON_PREFIX == <<"ESC[93;49;1m", " - ", "ESC[97;49;1m">>

HELPTEXT_PREFIX == <<"ESC[37;49;2m">>

RESET == <<"ESC[0m">>

(***************************************************************************)
(* lib.rs: helpers                                                         *)
(***************************************************************************)
\* Error::to_string of a foreign error
to_string(error) == error.display

\* The loop of error_sources recording each cause in front of the earlier ones
RECURSIVE error_sources_loop_front(_, _)
error_sources_loop_front(source, reasons) ==
    IF source # None
    THEN LET error == source[1]
         IN  error_sources_loop_front(error.source, <<to_string(error)>> \o reasons)
    ELSE reasons

\* The while-let loop of error_sources
RECURSIVE error_sources_loop(_, _)
error_sources_loop(source, reasons) ==
    IF source # None
    THEN LET error == source[1]
         IN  error_sources_loop(error.source, Append(reasons, to_string(error)))
    ELSE reasons

\* error_sources without the is_some check: an empty list for an error without source
error_sources_always_some(source) == Some(error_sources_loop(source, <<>>))

error_sources(source) ==
    IF source # None
    THEN Some(error_sources_loop(source, <<>>))
    ELSE None

\* The locals of error_sources: the argument it was called with (history), the
\* current source, the reasons pushed so far, the number of iterations made
\* (history), and the value returned once it has returned.
Walk(called_with, source, reasons, iterations, result) ==
    [called_with |-> called_with, source |-> source, reasons |-> reasons,
     iterations |-> iterations, result |-> result]

NoWalk == [called_with |-> None]

\* A loop body that does not move to the next source
loop_body_no_advance(w) ==
    LET error == w.source[1]
    IN  Walk(w.called_with, w.source, Append(w.reasons, to_string(error)),
             w.iterations + 1, w.result)

\* The body of the while-let loop of error_sources
loop_body(w) ==
    LET error == w.source[1]
    IN  Walk(w.called_with, error.source, Append(w.reasons, to_string(error)),
             w.iterations + 1, w.result)

pretty_summary(summary) == SUMMARY_PREFIX \o summary \o RESET

\* [String]::join(sep)
RECURSIVE join(_, _)
join(strs, sep) ==
    IF strs = <<>> THEN <<>>
    ELSE IF Len(strs) = 1 THEN strs[1]
    ELSE strs[1] \o <<sep>> \o join(Tail(strs), sep)

\* pretty_reasons that forgets the RESET after the last bullet
pretty_reasons_no_reset(reasons) ==
    IF reasons # None
    THEN LET rs == reasons[1]
             reason_strings == [i \in 1..Len(rs) |-> REASON_PREFIX \o rs[i]]
         IN  Some(join(reason_strings, NL))
    ELSE None

pretty_reasons(reasons) ==
    IF reasons # None
    THEN LET rs == reasons[1]
             reason_strings == [i \in 1..Len(rs) |-> REASON_PREFIX \o rs[i]]
         IN  Some(join(reason_strings, NL) \o RESET)
    ELSE None

pretty_helptext(helptext) ==
    IF helptext # None
    THEN Some(HELPTEXT_PREFIX \o helptext[1] \o RESET)
    ELSE None

get_ufe_struct_members(error) ==
    [summary |-> to_string(error), reasons |-> error_sources(error.source)]

(***************************************************************************)
(* lib.rs: struct UserFacingError                                          *)
(***************************************************************************)
NoMessage == [type |-> "none"]

UserFacingError(summary, reasons, helptext, source) ==
    [type |-> "UserFacingError", summary |-> summary, reasons |-> reasons,
     helptext |-> helptext, source |-> source]

IsUFE(e) == e.type = "UserFacingError"

(***************************************************************************)
(* lib.rs: trait UFE.  An implementor is a foreign error type with         *)
(* `impl UFE`; each of the three methods is either the default one or      *)
(* overridden with a value of the implementor's choice.                    *)
(***************************************************************************)
Implementor(error, summary, reasons, helptext) ==
    [type |-> "implementor", error |-> error, override_summary |-> summary,
     override_reasons |-> reasons, override_helptext |-> helptext]

IsImplementor(e) == e.type = "implementor"

\* The values an implementor's reasons() can return.
ReasonsValues == {None} \cup {Some(v) : v \in SeqsUpTo(Strings, MaxReasons)}

\* The values an implementor's helptext() can return.
HelptextValues == {None} \cup {Some(s) : s \in Strings}

\* The default summary()
UFE_default_summary(error) == to_string(error)

\* A default reasons() that starts the walk at the error itself
UFE_default_reasons_from_self(error) == error_sources(Some(error))

\* The default reasons()
UFE_default_reasons(error) == error_sources(error.source)

\* The default helptext()
UFE_default_helptext(error) == None

\* self.summary()
UFE_summary(self) ==
    IF IsUFE(self) THEN self.summary
    ELSE IF self.override_summary # None THEN self.override_summary[1]
    ELSE UFE_default_summary(self.error)

\* self.reasons()
UFE_reasons(self) ==
    IF IsUFE(self) THEN self.reasons
    ELSE IF self.override_reasons # None THEN self.override_reasons[1]
    ELSE UFE_default_reasons(self.error)

\* self.helptext()
UFE_helptext(self) ==
    IF IsUFE(self) THEN self.helptext
    ELSE IF self.override_helptext # None THEN self.override_helptext[1]
    ELSE UFE_default_helptext(self.error)

\* Display with one format string for all cases: an absent segment leaves an empty line
fmt_stray_separator(self) ==
    LET summary == pretty_summary(self.summary)
        reasons == pretty_reasons(self.reasons)
        helptext == pretty_helptext(self.helptext)
    IN  summary \o <<NL>>
        \o (IF reasons # None THEN reasons[1] ELSE <<>>) \o <<NL>>
        \o (IF helptext # None THEN helptext[1] ELSE <<>>) \o <<NL>>

\* Display written with write! instead of writeln!: no line terminator
fmt_no_terminator(self) ==
    LET summary == pretty_summary(self.summary)
        reasons == pretty_reasons(self.reasons)
        helptext == pretty_helptext(self.helptext)
    IN  summary
        \o (IF reasons # None THEN <<NL>> \o reasons[1] ELSE <<>>)
        \o (IF helptext # None THEN <<NL>> \o helptext[1] ELSE <<>>)

\* Display that unwraps the help text: it panics when there is none
fmt_unwrap_helptext(self) ==
    IF self.helptext = None
    THEN <<"panicked: called Option::unwrap() on a None value">>
    ELSE fmt_stray_separator(self)

\* Display that leaves a blank line between the reasons and the help text
fmt_blank_line_before_help(self) ==
    LET summary == pretty_summary(self.summary)
        reasons == pretty_reasons(self.reasons)
        helptext == pretty_helptext(self.helptext)
    IN  summary \o <<NL>>
        \o (IF reasons # None THEN reasons[1] \o <<NL>> ELSE <<>>)
        \o (IF helptext # None
            THEN (IF reasons # None THEN <<NL>> ELSE <<>>) \o helptext[1] \o <<NL>>
            ELSE <<>>)

\* impl Display for UserFacingError
fmt(self) ==
    LET summary == pretty_summary(self.summary)
        reasons == pretty_reasons(self.reasons)
        helptext == pretty_helptext(self.helptext)
    IN  CASE reasons = None /\ helptext = None ->
               summary \o <<NL>>
          [] reasons # None /\ helptext = None ->
               summary \o <<NL>> \o reasons[1] \o <<NL>>
          [] reasons = None /\ helptext # None ->
               summary \o <<NL>> \o helptext[1] \o <<NL>>
          [] reasons # None /\ helptext # None ->
               summary \o <<NL>> \o reasons[1] \o <<NL>> \o helptext[1] \o <<NL>>

\* print as eprintln!("{}", self): the Display output and a line terminator
print_display_ln(self) == fmt(self) \o <<NL>>

\* UFE::print: one eprintln! per present segment
print(self) ==
    LET summary == pretty_summary(UFE_summary(self))
        reasons == pretty_reasons(UFE_reasons(self))
        helptext == pretty_helptext(UFE_helptext(self))
    IN  summary \o <<NL>>
        \o (IF reasons # None THEN reasons[1] \o <<NL>> ELSE <<>>)
        \o (IF helptext # None THEN helptext[1] \o <<NL>> ELSE <<>>)

\* A rendering that takes the help text out of the value
borrowed_take_helptext(self) == [self EXCEPT !.helptext = None]

\* The value after a call that takes &self
borrowed(self) == self

from_io_error(error) ==
    LET m == get_ufe_struct_members(error)
    IN  UserFacingError(m.summary, m.reasons, None, Some(error))

from_box(error) ==
    LET m == get_ufe_struct_members(error)
    IN  UserFacingError(m.summary, m.reasons, None, Some(error))

from_ref(error) ==
    LET m == get_ufe_struct_members(error)
    IN  UserFacingError(m.summary, m.reasons, None, None)

\* A conversion that also unwraps the source of the error
unwrap_err_or_source_panics(result) == result.ok \/ result.error.source = None

\* Result::unwrap_err panics exactly on an Ok
unwrap_err_panics(result) == result.ok

\* The conversion of an Err result; unwrap_err panics on Ok (see FromResult).
from_result(result) ==
    LET error == result.error
        m == get_ufe_struct_members(error)
    IN  UserFacingError(m.summary, m.reasons, None, Some(error))

\* new that starts with an empty list of reasons instead of none
new_empty_reasons(summary) == UserFacingError(summary, Some(<<>>), None, None)

new(summary) == UserFacingError(summary, None, None, None)

\* update that rebuilds the value from the summary
update_rebuild(self, summary) == UserFacingError(summary, None, None, None)

update(self, summary) == [self EXCEPT !.summary = summary]

\* push that appends the old summary instead of inserting it at index 0
push_back(self, new_summary) ==
    LET old_summary == self.summary
        reasons == IF self.reasons # None
                   THEN Some(Append(self.reasons[1], old_summary))
                   ELSE Some(<<old_summary>>)
    IN  [self EXCEPT !.reasons = reasons, !.summary = new_summary]

push(self, new_summary) ==
    LET old_summary == self.summary
        reasons == IF self.reasons # None
                   THEN Some(<<old_summary>> \o self.reasons[1])
                   ELSE Some(<<old_summary>>)
    IN  [self EXCEPT !.reasons = reasons, !.summary = new_summary]

\* reason that replaces the list instead of extending it
reason_replace(self, text) == [self EXCEPT !.reasons = Some(<<text>>)]

reason(self, text) ==
    [self EXCEPT !.reasons = IF self.reasons # None
                             THEN Some(Append(self.reasons[1], text))
                             ELSE Some(<<text>>)]

\* clear_reasons that also forgets the original error
clear_reasons_drop_source(self) == [self EXCEPT !.reasons = None, !.source = None]

\* clear_reasons as Vec::truncate(1)
clear_reasons_truncate(self) ==
    [self EXCEPT !.reasons = IF self.reasons # None
                             THEN Some(SubSeq(self.reasons[1], 1, 1))
                             ELSE None]

\* clear_reasons as Vec::clear: the list stays, empty
clear_reasons_empty_list(self) == [self EXCEPT !.reasons = Some(<<>>)]

clear_reasons(self) == [self EXCEPT !.reasons = None]

\* help that keeps the help text already set
help_keep_first(self, helptext) ==
    IF self.helptext # None THEN self ELSE [self EXCEPT !.helptext = Some(helptext)]

help(self, helptext) == [self EXCEPT !.helptext = Some(helptext)]

clear_helptext(self) == [self EXCEPT !.helptext = None]

\* impl Error for UserFacingError: source()
Error_source(self) == IF self.source # None THEN self.source ELSE None

(***************************************************************************)
(* helper.rs, implementation.rs, string_errors.rs: struct UserError        *)
(***************************************************************************)
UserError(summary, reasons, subtleties, original_errors) ==
    [type |-> "UserError", summary |-> summary, reasons |-> reasons,
     subtleties |-> subtleties, original_errors |-> original_errors]

IsUE(e) == e.type = "UserError"

default_summary(arg0) ==
    LET name == IF arg0 # None THEN arg0[1] ELSE <<"The application">>
    IN  name \o <<" encountered an unknown error.">>

UserError_new(summary, reasons, subtleties, arg0) ==
    LET s == IF summary = <<>> THEN default_summary(arg0) ELSE summary
    IN  UserError(s, Some(reasons), Some(subtleties), None)

hardcoded(summary, reasons, subtleties) ==
    UserError(summary, Some(reasons), Some(subtleties), None)

simple(summary) == UserError(summary, None, None, None)

from_string(error) == UserError(error, None, None, None)

from_str(error) == UserError(error, None, None, None)

update_summary(self, s) == [self EXCEPT !.summary = s]

\* add_reason that pushes the reason at the back of the list
add_reason_back(self, text) ==
    [self EXCEPT !.reasons = IF self.reasons # None
                             THEN Some(Append(self.reasons[1], text))
                             ELSE Some(<<text>>)]

add_reason(self, text) ==
    [self EXCEPT !.reasons = IF self.reasons # None
                             THEN Some(<<text>> \o self.reasons[1])
                             ELSE Some(<<text>>)]

\* update_and_push_summary that sets the summary before pushing it
update_and_push_summary_new_first(self, s) ==
    LET old_summary == s
    IN  [add_reason(self, old_summary) EXCEPT !.summary = s]

update_and_push_summary(self, s) ==
    LET old_summary == self.summary
    IN  [add_reason(self, old_summary) EXCEPT !.summary = s]

UserError_clear_reasons(self) == [self EXCEPT !.reasons = None]

add_subtly(self, subtly) ==
    [self EXCEPT !.subtleties = IF self.subtleties # None
                                THEN Some(Append(self.subtleties[1], subtly))
                                ELSE Some(<<subtly>>)]

clear_subtleties(self) == [self EXCEPT !.subtleties = None]

(***************************************************************************)
(* traits.rs, implementation.rs: rendering and printing a UserError        *)
(***************************************************************************)
\* A string styled with the colorful crate: wrapped in the style's escape code
\* and the reset code when colors are on, the bare text otherwise.
colorful(style, text, color) ==
    IF color THEN <<style>> \o text \o <<"ESC[0m">> ELSE text

\* String::pop
pop(b) == IF b = <<>> THEN <<>> ELSE SubSeq(b, 1, Len(b) - 1)

RECURSIVE concat(_)
concat(strs) == IF strs = <<>> THEN <<>> ELSE Head(strs) \o concat(Tail(strs))

UserError_summary(self, color) ==
    colorful("ESC[white;bg-red;bold]", <<"Error:">>, color) \o <<" ">>
    \o colorful("ESC[red;bold]", self.summary, color)

UserError_reasons(self, color) ==
    IF self.reasons # None
    THEN LET v == self.reasons[1]
         IN  pop(concat([i \in 1..Len(v) |->
                 colorful("ESC[yellow]", <<"-">>, color) \o <<" ">> \o v[i] \o <<NL>>]))
    ELSE <<>>

UserError_subtleties(self, color) ==
    IF self.subtleties # None
    THEN LET v == self.subtleties[1]
         IN  pop(concat([i \in 1..Len(v) |->
                 colorful("ESC[white;dim]", v[i], color) \o <<NL>>]))
    ELSE <<>>

\* Display for UserError that adds the line breaks when the lists are present,
\* whether or not they rendered to anything
UserError_fmt_is_some(self, color) ==
    LET summary0 == UserError_summary(self, color)
        reasons0 == UserError_reasons(self, color)
        subtleties == UserError_subtleties(self, color)
        summary == IF self.reasons # None \/ self.subtleties # None
                   THEN summary0 \o <<NL>> ELSE summary0
        reasons == IF self.reasons # None /\ self.subtleties # None
                   THEN reasons0 \o <<NL>> ELSE reasons0
    IN  summary \o reasons \o subtleties

\* impl Display for UserError
UserError_fmt(self, color) ==
    LET summary0 == UserError_summary(self, color)
        reasons0 == UserError_reasons(self, color)
        subtleties == UserError_subtleties(self, color)
        summary == IF reasons0 # <<>> \/ subtleties # <<>>
                   THEN summary0 \o <<NL>> ELSE summary0
        reasons == IF reasons0 # <<>> /\ subtleties # <<>>
                   THEN reasons0 \o <<NL>> ELSE reasons0
    IN  summary \o reasons \o subtleties

\* UserError::print: eprintln!("{}", self)
UserError_print(self, color) == UserError_fmt(self, color) \o <<NL>>

(***************************************************************************)
(* The state machine.  A behaviour follows one error value from the call   *)
(* that builds it through the mutators applied to it: values share no      *)
(* state, so the constructors and conversions are enabled only while no    *)
(* value has been built.                                                   *)
(***************************************************************************)
NoTrail == [ok |-> FALSE, args |-> <<>>]

Op(name, arg) == [op |-> name, arg |-> arg]

Init ==
    /\ err = NoMessage
    /\ prev = NoMessage
    /\ last = Op("init", <<>>)
    /\ trail = NoTrail
    /\ pc = "run"
    /\ written = <<>>
    /\ returned = None
    /\ exit_code = None
    /\ walk = NoWalk

\* What a constructor or mutator leaves of the outputs: it writes and returns no String.
Silent ==
    /\ written' = <<>>
    /\ returned' = None
    /\ exit_code' = exit_code
    /\ walk' = walk

\* A constructor or conversion returned value e.
Built(e, name, arg) ==
    /\ err' = e
    /\ prev' = NoMessage
    /\ last' = Op(name, arg)
    /\ pc' = pc
    /\ Silent

\* A mutator turned the held value into e.
Mutated(e, name, arg) ==
    /\ err' = e
    /\ prev' = err
    /\ last' = Op(name, arg)
    /\ pc' = pc
    /\ Silent

NumReasons(e) == IF e.reasons # None THEN Len(e.reasons[1]) ELSE 0

NumReasonsOf(reasons) == IF reasons # None THEN Len(reasons[1]) ELSE 0

NumSubtleties(e) == IF e.subtleties # None THEN Len(e.subtleties[1]) ELSE 0

New ==
    /\ pc = "run" /\ err = NoMessage
    /\ \E s \in Strings : Built(new(s), "new", s)
    /\ trail' = [ok |-> TRUE, args |-> <<>>]

FromIoError ==
    /\ pc = "run" /\ err = NoMessage
    /\ \E e \in Errors : Built(from_io_error(e), "from_io_error", e)
    /\ trail' = NoTrail

FromBox ==
    /\ pc = "run" /\ err = NoMessage
    /\ \E e \in Errors : Built(from_box(e), "from_box", e)
    /\ trail' = NoTrail

FromRef ==
    /\ pc = "run" /\ err = NoMessage
    /\ \E e \in Errors : Built(from_ref(e), "from_ref", e)
    /\ trail' = NoTrail

FromResult ==
    /\ pc = "run" /\ err = NoMessage
    /\ \E r \in Results :
         IF unwrap_err_panics(r)
         THEN /\ pc' = "panic"
              /\ last' = Op("from_result", r)
              /\ Silent
              /\ UNCHANGED <<err, prev>>
         ELSE Built(from_result(r), "from_result", r)
    /\ trail' = NoTrail

Update ==
    /\ pc = "run" /\ IsUFE(err)
    /\ \E s \in Strings : Mutated(update(err, s), "update", s)
    /\ trail' = NoTrail

Push ==
    /\ pc = "run" /\ IsUFE(err)
    /\ NumReasons(err) < MaxReasons
    /\ \E s \in Strings : Mutated(push(err, s), "push", s)
    /\ trail' = NoTrail

Reason ==
    /\ pc = "run" /\ IsUFE(err)
    /\ NumReasons(err) < MaxReasons
    /\ \E s \in Strings :
         /\ Mutated(reason(err, s), "reason", s)
         /\ trail' = IF trail.ok
                     THEN [trail EXCEPT !.args = Append(@, s)]
                     ELSE NoTrail

ClearReasons ==
    /\ pc = "run" /\ IsUFE(err)
    /\ Mutated(clear_reasons(err), "clear_reasons", <<>>)
    /\ trail' = NoTrail

Help ==
    /\ pc = "run" /\ IsUFE(err)
    /\ \E s \in Strings : Mutated(help(err, s), "help", s)
    /\ trail' = NoTrail

ClearHelptext ==
    /\ pc = "run" /\ IsUFE(err)
    /\ Mutated(clear_helptext(err), "clear_helptext", <<>>)
    /\ trail' = NoTrail

UserErrorNew ==
    /\ pc = "run" /\ err = NoMessage
    /\ \E s \in Strings, r \in SeqsUpTo(Strings, MaxReasons),
          t \in SeqsUpTo(Strings, MaxSubtleties), arg0 \in ProcNames :
         Built(UserError_new(s, r, t, arg0), "UserError::new", <<s, r, t>>)
    /\ trail' = NoTrail

Hardcoded ==
    /\ pc = "run" /\ err = NoMessage
    /\ \E s \in Strings, r \in SeqsUpTo(Strings, MaxReasons),
          t \in SeqsUpTo(Strings, MaxSubtleties) :
         Built(hardcoded(s, r, t), "hardcoded", <<s, r, t>>)
    /\ trail' = NoTrail

Simple ==
    /\ pc = "run" /\ err = NoMessage
    /\ \E s \in Strings : Built(simple(s), "simple", s)
    /\ trail' = [ok |-> TRUE, args |-> <<>>]

FromString ==
    /\ pc = "run" /\ err = NoMessage
    /\ \E s \in Strings : Built(from_string(s), "from_string", s)
    /\ trail' = NoTrail

FromStr ==
    /\ pc = "run" /\ err = NoMessage
    /\ \E s \in Strings : Built(from_str(s), "from_str", s)
    /\ trail' = NoTrail

UpdateSummary ==
    /\ pc = "run" /\ IsUE(err)
    /\ \E s \in Strings : Mutated(update_summary(err, s), "update_summary", s)
    /\ trail' = NoTrail

UpdateAndPushSummary ==
    /\ pc = "run" /\ IsUE(err)
    /\ NumReasons(err) < MaxReasons
    /\ \E s \in Strings :
         Mutated(update_and_push_summary(err, s), "update_and_push_summary", s)
    /\ trail' = NoTrail

AddReason ==
    /\ pc = "run" /\ IsUE(err)
    /\ NumReasons(err) < MaxReasons
    /\ \E s \in Strings :
         /\ Mutated(add_reason(err, s), "add_reason", s)
         /\ trail' = IF trail.ok
                     THEN [trail EXCEPT !.args = Append(@, s)]
                     ELSE NoTrail

UserErrorClearReasons ==
    /\ pc = "run" /\ IsUE(err)
    /\ Mutated(UserError_clear_reasons(err), "UserError::clear_reasons", <<>>)
    /\ trail' = NoTrail

AddSubtly ==
    /\ pc = "run" /\ IsUE(err)
    /\ NumSubtleties(err) < MaxSubtleties
    /\ \E s \in Strings : Mutated(add_subtly(err, s), "add_subtly", s)
    /\ trail' = NoTrail

ClearSubtleties ==
    /\ pc = "run" /\ IsUE(err)
    /\ Mutated(clear_subtleties(err), "clear_subtleties", <<>>)
    /\ trail' = NoTrail

\* print_and_exit that exits without printing
UfeExitWithoutPrint ==
    /\ pc = "run" /\ IsUFE(err)
    /\ err' = err /\ prev' = err /\ last' = Op("print_and_exit", <<>>)
    /\ written' = <<>> /\ returned' = None /\ exit_code' = exit_code /\ trail' = trail
    /\ walk' = walk
    /\ pc' = "exiting"

\* An operation that takes &self: it may write or return a String.
Observed(name, arg, w, r) ==
    /\ err' = borrowed(err)
    /\ prev' = err
    /\ last' = Op(name, arg)
    /\ written' = w
    /\ returned' = r
    /\ exit_code' = exit_code
    /\ walk' = walk
    /\ trail' = trail

\* ToString::to_string through impl Display for UserFacingError
UfeToString ==
    /\ pc = "run" /\ IsUFE(err)
    /\ Observed("to_string", <<>>, <<>>, Some(fmt(err)))
    /\ pc' = pc

UfePrint ==
    /\ pc = "run" /\ IsUFE(err)
    /\ Observed("print", <<>>, print(err), None)
    /\ pc' = pc

\* print_and_exit up to its call of std::process::exit
UfePrintAndExit ==
    /\ pc = "run" /\ IsUFE(err)
    /\ Observed("print_and_exit", <<>>, print(err), None)
    /\ pc' = "exiting"

UserErrorToString ==
    /\ pc = "run" /\ IsUE(err)
    /\ \E color \in Colors :
         Observed("UserError::to_string", color, <<>>, Some(UserError_fmt(err, color)))
    /\ pc' = pc

UserErrorPrint ==
    /\ pc = "run" /\ IsUE(err)
    /\ \E color \in Colors :
         Observed("UserError::print", color, UserError_print(err, color), None)
    /\ pc' = pc

UserErrorPrintAndExit ==
    /\ pc = "run" /\ IsUE(err)
    /\ \E color \in Colors :
         Observed("UserError::print_and_exit", color, UserError_print(err, color), None)
    /\ pc' = "exiting"

\* A value of a foreign error type that implements UFE
Implement ==
    /\ pc = "run" /\ err = NoMessage
    /\ \E e \in Errors, s \in {None} \cup {Some(x) : x \in Strings},
          r \in {None} \cup {Some(x) : x \in ReasonsValues},
          h \in {None} \cup {Some(x) : x \in HelptextValues} :
         Built(Implementor(e, s, r, h), "impl UFE", <<>>)
    /\ trail' = NoTrail

\* UFE::print of an implementor
ImplementorPrint ==
    /\ pc = "run" /\ IsImplementor(err)
    /\ Observed("UFE::print", <<>>, print(err), None)
    /\ pc' = pc

\* UserFacingError::from(Box::new(error)) of an implementor
ImplementorIntoUfe ==
    /\ pc = "run" /\ IsImplementor(err)
    /\ Mutated(from_box(err.error), "into", <<>>)
    /\ trail' = NoTrail

\* A call error_sources(error.source()): the is_some check.  Without a source
\* it returns None at once; with one it creates the list and enters the loop.
ErrorSourcesCall ==
    /\ pc = "run" /\ err = NoMessage
    /\ \E e \in Errors :
         /\ last' = Op("error_sources", e)
         /\ IF e.source # None
            THEN /\ walk' = Walk(e.source, e.source, <<>>, 0, None)
                 /\ pc' = "error_sources"
            ELSE /\ walk' = Walk(e.source, e.source, <<>>, 0, Some(None))
                 /\ pc' = "walked"
    /\ UNCHANGED <<err, prev, trail, written, returned, exit_code>>

\* One iteration of `while let Some(error) = source`
ErrorSourcesIterate ==
    /\ pc = "error_sources" /\ walk.source # None
    /\ walk' = loop_body(walk)
    /\ UNCHANGED <<err, prev, last, trail, pc, written, returned, exit_code>>

\* The loop ends when source is None; error_sources returns Some(reasons)
ErrorSourcesReturn ==
    /\ pc = "error_sources" /\ walk.source = None
    /\ walk' = [walk EXCEPT !.result = Some(Some(walk.reasons))]
    /\ pc' = "walked"
    /\ UNCHANGED <<err, prev, last, trail, written, returned, exit_code>>

\* std::process::exit(1), the last statement of both print_and_exit
Exit ==
    /\ pc = "exiting"
    /\ pc' = "exit"
    /\ exit_code' = Some(1)
    /\ UNCHANGED <<err, prev, last, trail, written, returned, walk>>

Next ==
    \/ UfeToString \/ UfePrint \/ UfePrintAndExit
    \/ UserErrorToString \/ UserErrorPrint \/ UserErrorPrintAndExit \/ Exit
    \/ New \/ FromIoError \/ FromBox \/ FromRef \/ FromResult
    \/ Update \/ Push \/ Reason \/ ClearReasons \/ Help \/ ClearHelptext
    \/ UserErrorNew \/ Hardcoded \/ Simple \/ FromString \/ FromStr
    \/ UpdateSummary \/ UpdateAndPushSummary \/ AddReason
    \/ UserErrorClearReasons \/ AddSubtly \/ ClearSubtleties
    \/ Implement \/ ImplementorPrint \/ ImplementorIntoUfe
    \/ ErrorSourcesCall \/ ErrorSourcesIterate \/ ErrorSourcesReturn

Spec == Init /\ [][Next]_vars

(***************************************************************************)
(* Reading a rendering back: its lines, its bulleted lines, their texts    *)
(***************************************************************************)
RECURSIVE SplitLines(_, _, _)
SplitLines(s, cur, acc) ==
    IF s = <<>> THEN Append(acc, cur)
    ELSE IF Head(s) = NL THEN SplitLines(Tail(s), <<>>, Append(acc, cur))
    ELSE SplitLines(Tail(s), Append(cur, Head(s)), acc)

\* The text between the newlines of out; the last one is what follows the last newline.
Lines(out) == SplitLines(out, <<>>, <<>>)

StartsWith(s, p) == Len(s) >= Len(p) /\ SubSeq(s, 1, Len(p)) = p

EndsWith(s, p) == Len(s) >= Len(p) /\ SubSeq(s, Len(s) - Len(p) + 1, Len(s)) = p

IsBullet(line) == StartsWith(line, REASON_PREFIX)

BulletLines(out) == SelectSeq(Lines(out), IsBullet)

BulletText(line) ==
    LET body == SubSeq(line, Len(REASON_PREFIX) + 1, Len(line))
    IN  IF EndsWith(body, RESET) THEN SubSeq(body, 1, Len(body) - Len(RESET)) ELSE body

BulletTexts(out) == [i \in 1..Len(BulletLines(out)) |-> BulletText(BulletLines(out)[i])]

Count(seq, x) == Cardinality({i \in 1..Len(seq) : seq[i] = x})

Reverse(seq) == [i \in 1..Len(seq) |-> seq[Len(seq) + 1 - i]]

Contains(s, tok) == \E i \in 1..Len(s) : s[i] = tok

ConvOps == {"from_io_error", "from_box", "from_ref", "from_result"}

\* The error the last conversion was given.
ConvError == IF last.op = "from_result" THEN last.arg.error ELSE last.arg

Converted == last.op \in ConvOps /\ IsUFE(err)

RECURSIVE Depth(_)
Depth(error) == IF error.source = None THEN 0 ELSE 1 + Depth(error.source[1])

RECURSIVE Ancestor(_, _)
Ancestor(error, i) == IF i = 1 THEN error.source[1] ELSE Ancestor(error.source[1], i - 1)

\* The segments a message has, in the order summary, reasons, help text.
Segments(e) ==
    <<pretty_summary(e.summary)>>
    \o (IF e.reasons # None THEN <<pretty_reasons(e.reasons)[1]>> ELSE <<>>)
    \o (IF e.helptext # None THEN <<pretty_helptext(e.helptext)[1]>> ELSE <<>>)

(***************************************************************************)
(* Claims                                                                  *)
(***************************************************************************)

\* C1: the rendering of a UserFacingError is its present segments in the order
\* summary, reasons, help text, each two neighbours separated by exactly one
\* newline, an absent segment contributing nothing; the line terminator of
\* writeln! ends it.
C1_RenderJoinsPresentSegments ==
    IsUFE(err) =>
        LET out == fmt(err)
            segs == Segments(err)
        IN  /\ out = join(segs, NL) \o <<NL>>
            /\ StartsWith(out, pretty_summary(err.summary) \o <<NL>>)
            /\ Len(out) = Len(segs[1]) + 1
                          + (IF err.reasons # None THEN Len(segs[2]) + 1 ELSE 0)
                          + (IF err.helptext # None THEN Len(segs[Len(segs)]) + 1 ELSE 0)

C1_Witness ==
    /\ IsUFE(err) /\ last.op = "help"
    /\ err.reasons # None /\ Len(err.reasons[1]) = 2
    /\ err.helptext # None /\ err.helptext[1] # <<>>

\* C2: for a non-empty summary s, new(s) has no reasons and no help text and
\* renders as SUMMARY_PREFIX, s, RESET and one newline: no bullet, no help text.
C2_NewRendersSummaryOnly ==
    (last.op = "new" /\ last.arg # <<>>) =>
        /\ err.summary = last.arg
        /\ err.reasons = None
        /\ err.helptext = None
        /\ fmt(err) = SUMMARY_PREFIX \o last.arg \o RESET \o <<NL>>
        /\ BulletLines(fmt(err)) = <<>>
        /\ ~Contains(fmt(err), HELPTEXT_PREFIX[1])

C2_Witness == last.op = "new" /\ last.arg = <<"a">> /\ IsUFE(err)

\* C3: converting an error whose causal chain has depth N >= 1 sets the summary
\* to the error's display text and the reasons to exactly N strings, the i-th
\* being the display text of the i-th ancestor (immediate cause first).
C3_ConversionRecordsChainInWalkOrder ==
    (Converted /\ Depth(ConvError) >= 1) =>
        /\ err.summary = to_string(ConvError)
        /\ err.reasons # None
        /\ Len(err.reasons[1]) = Depth(ConvError)
        /\ \A i \in 1..Depth(ConvError) :
             err.reasons[1][i] = to_string(Ancestor(ConvError, i))

C3_Witness ==
    /\ Converted /\ Depth(ConvError) = 2
    /\ to_string(Ancestor(ConvError, 1)) # to_string(Ancestor(ConvError, 2))
    /\ to_string(ConvError) # to_string(Ancestor(ConvError, 1))

\* C4: converting an error without cause yields no reasons (None, not an empty
\* list) and no help text, so the rendering is the summary segment and a newline.
C4_ConversionWithoutCauseHasNoReasons ==
    (Converted /\ Depth(ConvError) = 0) =>
        /\ err.reasons = None
        /\ err.helptext = None
        /\ fmt(err) = SUMMARY_PREFIX \o to_string(ConvError) \o RESET \o <<NL>>

C4_Witness == Converted /\ Depth(ConvError) = 0 /\ last.op = "from_box"

CtorOps == {"new", "simple", "from_string", "from_str", "UserError::new", "hardcoded"}

\* The summary the last constructor was given.
CtorSummary == IF last.op \in {"UserError::new", "hardcoded"} THEN last.arg[1] ELSE last.arg

Placeholders == {default_summary(n) : n \in ProcNames}

\* C5: a message built with an empty summary string stores the generated
\* placeholder instead of the empty string.
C5_EmptySummaryBecomesPlaceholder ==
    (last.op \in CtorOps /\ CtorSummary = <<>>) =>
        /\ err.summary # <<>>
        /\ err.summary \in Placeholders

\* C6: push(new_summary) sets the summary to new_summary and the reasons to the
\* previous summary followed by the previous reasons in unchanged order; the
\* help text is unchanged.
C6_PushPutsOldSummaryFirst ==
    last.op = "push" =>
        /\ err.summary = last.arg
        /\ err.reasons # None
        /\ Head(err.reasons[1]) = prev.summary
        /\ Tail(err.reasons[1]) = (IF prev.reasons # None THEN prev.reasons[1] ELSE <<>>)
        /\ err.helptext = prev.helptext

C6_Witness ==
    /\ last.op = "push"
    /\ prev.reasons # None /\ prev.reasons[1] # <<>>
    /\ prev.reasons[1][1] # prev.summary
    /\ prev.helptext # None

\* C7: update(s) and update_summary(s) replace the summary with s and leave the
\* reasons, the help text or subtleties and the retained source unchanged.
C7_UpdateChangesOnlySummary ==
    /\ last.op = "update" =>
         /\ err.summary = last.arg
         /\ err.reasons = prev.reasons
         /\ err.helptext = prev.helptext
         /\ err.source = prev.source
    /\ last.op = "update_summary" =>
         /\ err.summary = last.arg
         /\ err.reasons = prev.reasons
         /\ err.subtleties = prev.subtleties
         /\ err.original_errors = prev.original_errors

C7_Witness ==
    /\ last.op = "update"
    /\ prev.summary # err.summary
    /\ prev.reasons # None /\ prev.helptext # None /\ prev.source # None

\* C8: after k reason(text) calls on new(s) the rendering has, below the summary
\* line, exactly k bulleted lines, one per call and each holding the text of a
\* distinct call, joined by single newlines, and no blank line after the last.
C8_OneBulletPerReasonCall ==
    (trail.ok /\ IsUFE(err)) =>
        LET out == fmt(err)
            texts == BulletTexts(out)
        IN  /\ Len(BulletLines(out)) = Len(trail.args)
            /\ \A x \in Strings : Count(texts, x) = Count(trail.args, x)
            /\ Lines(out) = <<pretty_summary(err.summary)>> \o BulletLines(out) \o << <<>> >>
            /\ Len(trail.args) > 0 => EndsWith(out, RESET \o <<NL>>)

C8_Witness ==
    /\ trail.ok /\ IsUFE(err)
    /\ Len(trail.args) = 2 /\ trail.args[1] # trail.args[2]

\* C9: reasons added with reason() are rendered in the reverse of the order in
\* which they were added.
C9_ReasonsRenderedInReverseOrder ==
    (trail.ok /\ IsUFE(err)) => BulletTexts(fmt(err)) = Reverse(trail.args)

\* Where an operation put the string x when it turned the list old into the list
\* now: "front", "back", or "either" when the two cannot be told apart.
InsertedAt(old, x, now) ==
    CASE now = <<x>> \o old /\ now = Append(old, x) -> "either"
      [] now = <<x>> \o old -> "front"
      [] now = Append(old, x) -> "back"
      [] OTHER -> "neither"

SameEnd(a, b) == a = "either" \/ b = "either" \/ (a = b /\ a # "neither")

\* C10: reason(text) and push(new_summary) add the new reason at the same end
\* of the reasons sequence, whatever reason and push calls came before.
C10_ReasonAndPushUseOneEnd ==
    (IsUFE(err) /\ err.reasons # None /\ NumReasons(err) < MaxReasons) =>
        \A x \in Strings, s \in Strings :
            SameEnd(InsertedAt(err.reasons[1], x, reason(err, x).reasons[1]),
                    InsertedAt(err.reasons[1], err.summary, push(err, s).reasons[1]))

\* A UserFacingError with the given summary and help text that never had reasons.
WithoutReasons(e) == UserFacingError(e.summary, None, e.helptext, None)

\* A UserFacingError with the given summary and reasons that never had help text.
WithoutHelptext(e) == UserFacingError(e.summary, e.reasons, None, None)

NoBlankLine(out) == \A i \in 1..(Len(Lines(out)) - 1) : Lines(out)[i] # <<>>

\* C11: clear_reasons() sets the reasons to absent, whatever was done before:
\* the rendering has no bulleted line and no blank line, and equals that of a
\* message with the same summary and help text (subtleties) that never had reasons.
C11_ClearReasonsLeavesNoTrace ==
    /\ last.op = "clear_reasons" =>
         /\ err.reasons = None
         /\ BulletLines(fmt(err)) = <<>>
         /\ NoBlankLine(fmt(err))
         /\ fmt(err) = fmt(WithoutReasons(err))
         /\ err.summary = prev.summary /\ err.helptext = prev.helptext
    /\ last.op = "UserError::clear_reasons" =>
         /\ err.reasons = None
         /\ \A c \in Colors :
              UserError_fmt(err, c) =
              UserError_fmt(UserError(err.summary, None, err.subtleties, None), c)

C11_Witness ==
    /\ last.op = "clear_reasons"
    /\ prev.reasons # None /\ Len(prev.reasons[1]) = 2
    /\ prev.helptext # None

\* Where the help-text line and the last bulleted line are among the lines of out (0: none).
HelpLineAt(out) ==
    LET s == {i \in 1..Len(Lines(out)) : StartsWith(Lines(out)[i], HELPTEXT_PREFIX)}
    IN  IF s = {} THEN 0 ELSE CHOOSE i \in s : \A j \in s : i <= j

LastBulletAt(out) ==
    LET s == {i \in 1..Len(Lines(out)) : IsBullet(Lines(out)[i])}
    IN  IF s = {} THEN 0 ELSE CHOOSE i \in s : \A j \in s : i >= j

\* C12: a UserFacingError holds at most one help text: help(text) sets it to
\* text, replacing an earlier one; clear_helptext() makes it absent and the
\* rendering that of a message that never had one; neither changes the summary
\* or the reasons; the help text is rendered after the reasons.
C12_OneHelptextRenderedLast ==
    /\ last.op = "help" =>
         /\ err.helptext = Some(last.arg)
         /\ err.summary = prev.summary /\ err.reasons = prev.reasons
         /\ fmt(err) = fmt(WithoutHelptext(err)) \o HELPTEXT_PREFIX \o last.arg \o RESET \o <<NL>>
    /\ last.op = "clear_helptext" =>
         /\ err.helptext = None
         /\ err.summary = prev.summary /\ err.reasons = prev.reasons
         /\ fmt(err) = fmt(WithoutHelptext(err))
         /\ HelpLineAt(fmt(err)) = 0
    /\ IsUFE(err) =>
         /\ Count(fmt(err), HELPTEXT_PREFIX[1]) = Len(err.helptext)
         /\ err.helptext # None => HelpLineAt(fmt(err)) > LastBulletAt(fmt(err))

C12_Witness ==
    /\ last.op = "help"
    /\ prev.helptext # None /\ prev.helptext[1] # last.arg
    /\ err.reasons # None /\ Len(err.reasons[1]) = 2

\* The rendered segments of a UserError that are not empty, in order.
UserErrorSegments(e, c) ==
    SelectSeq(<<UserError_summary(e, c), UserError_reasons(e, c),
                UserError_subtleties(e, c)>>,
              LAMBDA s : s # <<>>)

\* C13 as stated: the rendering ends with its last present segment, nothing
\* (no newline, no separator) follows it.
C13_RenderEndsWithLastSegment ==
    /\ IsUFE(err) => fmt(err) = join(Segments(err), NL)
    /\ IsUE(err) =>
         \A c \in Colors : UserError_fmt(err, c) = join(UserErrorSegments(err, c), NL)

\* C13 amended: the rendering of a UserFacingError ends with its last present
\* segment followed by exactly one newline; the rendering of a UserError ends
\* with its last non-empty segment and nothing follows it.
C13_UfeRenderEndsWithOneNewline ==
    /\ IsUFE(err) =>
         LET out == fmt(err)
             segs == Segments(err)
         IN  /\ EndsWith(out, segs[Len(segs)] \o <<NL>>)
             /\ SubSeq(out, 1, Len(out) - 1) = join(segs, NL)
             /\ ~EndsWith(out, <<NL, NL>>)
    /\ IsUE(err) =>
         \A c \in Colors : UserError_fmt(err, c) = join(UserErrorSegments(err, c), NL)

C13_Witness ==
    /\ IsUFE(err) /\ last.op = "to_string"
    /\ err.reasons = None /\ err.helptext = None
    /\ returned = Some(pretty_summary(err.summary) \o <<NL>>)

\* C14: the reasons of a UserFacingError are absent or a non-empty list, never
\* a present but empty list, after any sequence of operations.
C14_ReasonsAbsentOrNonEmpty ==
    IsUFE(err) => (err.reasons = None \/ err.reasons[1] # <<>>)

C14_Witness ==
    /\ IsUFE(err) /\ last.op = "clear_reasons" /\ err.reasons = None
    /\ prev.reasons # None /\ prev.source # None

\* C15 as stated: every conversion of a foreign error completes and returns a
\* message; none panics.
C15_ConversionsNeverPanic ==
    last.op \in ConvOps => (pc # "panic" /\ IsUFE(err))

\* C15 amended: every conversion completes and returns a message, except the
\* conversion of a Result that is Ok, which panics (and only that one panics).
C15_ConversionsPanicOnlyOnOk ==
    /\ last.op \in ConvOps =>
         IF last.op = "from_result" /\ last.arg.ok
         THEN pc = "panic" /\ err = NoMessage
         ELSE pc = "run" /\ IsUFE(err) /\ err.summary = to_string(ConvError)
    /\ pc = "panic" => (last.op = "from_result" /\ last.arg.ok)

C15_Witness ==
    /\ last.op = "from_result" /\ ~last.arg.ok
    /\ IsUFE(err) /\ pc = "run" /\ err.reasons = None

Range(s) == {s[i] : i \in 1..Len(s)}

\* The characters and escape codes a rendering is made of.
RenderTokens ==
    {NL, " ", "Error:", "-", "ESC[0m",
     "ESC[white;bg-red;bold]", "ESC[red;bold]", "ESC[yellow]", "ESC[white;dim]"}
    \cup Range(SUMMARY_PREFIX) \cup Range(REASON_PREFIX)
    \cup Range(HELPTEXT_PREFIX) \cup Range(RESET)
    \cup UNION {Range(s) : s \in Strings \cup ErrTexts \cup Placeholders}

\* C16: rendering is total: for every reachable message, with reasons present or
\* absent and help text present or absent, it returns a string and does not panic.
C16_RenderingIsTotal ==
    /\ IsUFE(err) => fmt(err) \in Seq(RenderTokens)
    /\ IsUE(err) => \A c \in Colors : UserError_fmt(err, c) \in Seq(RenderTokens)
    /\ last.op \in {"to_string", "UserError::to_string"} =>
         /\ pc = "run"
         /\ returned # None /\ returned[1] \in Seq(RenderTokens)

C16_Witness ==
    /\ last.op = "to_string" /\ returned # None
    /\ err.reasons # None /\ err.helptext = None

ObserveOps ==
    {"to_string", "print", "print_and_exit",
     "UserError::to_string", "UserError::print", "UserError::print_and_exit"}

C18_PrintWritesRenderingAndTerminator ==
    /\ last.op = "print" => written = fmt(err) \o <<NL>>
    /\ last.op = "UserError::print" => written = UserError_fmt(err, last.arg) \o <<NL>>

\* C18 amended: print() of a UserFacingError writes exactly what Display
\* produces, whose last character already is the one line terminator: each
\* present segment followed by one newline.  print() of a UserError writes what
\* Display produces followed by one line terminator.
C18_PrintWritesDisplayOutput ==
    /\ last.op = "print" =>
         /\ written = fmt(err)
         /\ written = join(Segments(err), NL) \o <<NL>>
    /\ last.op = "UserError::print" => written = UserError_fmt(err, last.arg) \o <<NL>>

C18_Witness ==
    /\ last.op = "print" /\ written # <<>>
    /\ err.reasons # None /\ Len(err.reasons[1]) = 2 /\ err.helptext # None

\* What print() writes for the value held.
Printed == IF IsUFE(err) THEN print(err) ELSE UserError_print(err, last.arg)

ExitOps == {"print_and_exit", "UserError::print_and_exit"}

\* C19: print_and_exit() writes what print() writes and only then ends the
\* process with exit status 1; nothing runs after the exit and no other exit
\* status is produced.
C19_PrintThenExitWithStatusOne ==
    /\ pc = "exiting" =>
         (last.op \in ExitOps /\ written = Printed /\ exit_code = None)
    /\ pc = "exit" =>
         (last.op \in ExitOps /\ written = Printed /\ exit_code = Some(1) /\ ~ENABLED Next)
    /\ exit_code # None => (pc = "exit" /\ exit_code = Some(1))
    /\ last.op \in ExitOps => pc \in {"exiting", "exit"}

C19_Witness ==
    /\ pc = "exit" /\ exit_code = Some(1) /\ last.op = "print_and_exit"
    /\ err.reasons # None /\ err.helptext # None /\ written = print(err)

\* The message built by new(s).reason(r).help(h): the held value after help(h)
\* applied to the value reason(new(s), r).
IsScenario ==
    /\ last.op = "help" /\ IsUFE(err)
    /\ \E s, r \in Strings : prev = reason(new(s), r)

\* C20 as stated: new(s).reason(r).help(h) renders the styled summary line, the
\* bulleted line of r, a blank line, and the dim help text h.
C20_ScenarioHasBlankLineBeforeHelp ==
    IsScenario =>
        Lines(fmt(err)) = << SUMMARY_PREFIX \o err.summary \o RESET,
                             REASON_PREFIX \o err.reasons[1][1] \o RESET,
                             <<>>,
                             HELPTEXT_PREFIX \o err.helptext[1] \o RESET,
                             <<>> >>

\* C20 amended: new(s).reason(r).help(h) renders three lines: the styled summary
\* line, the bulleted line of r, and directly below it the dim help text h.
C20_ScenarioRendersThreeLines ==
    IsScenario =>
        Lines(fmt(err)) = << SUMMARY_PREFIX \o err.summary \o RESET,
                             REASON_PREFIX \o err.reasons[1][1] \o RESET,
                             HELPTEXT_PREFIX \o err.helptext[1] \o RESET,
                             <<>> >>

C20_Witness ==
    /\ IsScenario
    /\ err.summary = <<"a">> /\ err.reasons = Some(<< <<"b">> >>) /\ err.helptext = Some(<<"a">>)

(***************************************************************************)
(* Styled runs: a run starts at a style code and ends at the next escape   *)
(* code of the output                                                      *)
(***************************************************************************)
\* The escape codes that start a styled run (those of the three prefixes).
StyleCodes ==
    {c \in Range(SUMMARY_PREFIX) \cup Range(REASON_PREFIX) \cup Range(HELPTEXT_PREFIX) :
        c \notin {"Error:", " ", " - "}}

IsReset(tok) == <<tok>> = RESET

\* The position of the first escape code after position i of out (0: there is none).
NextCode(out, i) ==
    LET later == {j \in (i + 1)..Len(out) : out[j] \in StyleCodes \/ IsReset(out[j])}
    IN  IF later = {} THEN 0 ELSE CHOOSE j \in later : \A k \in later : j <= k

\* The styled run starting at position i is ended by RESET.
RunEndsWithReset(out, i) == NextCode(out, i) # 0 /\ IsReset(out[NextCode(out, i)])

StyledRuns(out) == {i \in 1..Len(out) : out[i] \in StyleCodes}

\* C21 as stated: in the rendered output every styled run (the "Error:" label,
\* the summary text, each bullet, each reason text, the help text) is followed
\* by RESET before the next styled run begins or the output ends.
C21_EveryStyledRunEndsWithReset ==
    IsUFE(err) => \A i \in StyledRuns(fmt(err)) : RunEndsWithReset(fmt(err), i)

\* C21 amended: every segment of the rendered output ends with RESET, and RESET
\* occurs nowhere else: once after the summary text, once after the last reason
\* and once after the help text.  Within a segment a styled run is ended by
\* the style code of the next run, so only the last run of each segment (the
\* summary text, the text of the last reason, the help text) is ended by RESET,
\* and no styled run is left open at the end of the output.
C21_EverySegmentEndsWithReset ==
    IsUFE(err) =>
        LET out == fmt(err)
            resets == {i \in 1..Len(out) : IsReset(out[i])}
        IN  /\ \A i \in resets : out[i + 1] = NL
            /\ Cardinality(resets) = Len(Segments(err))
            /\ \A s \in Range(Segments(err)) : EndsWith(s, RESET)
            /\ \A i \in StyledRuns(out) : NextCode(out, i) # 0
            /\ Cardinality({i \in StyledRuns(out) : RunEndsWithReset(out, i)})
                 = Len(Segments(err))
            /\ \A i \in StyledRuns(out) : \E j \in resets : j > i

C21_Witness ==
    /\ IsUFE(err) /\ last.op = "help"
    /\ err.reasons # None /\ Len(err.reasons[1]) = 2 /\ err.helptext # None
    /\ Cardinality(StyledRuns(fmt(err))) = 7
    /\ Cardinality({i \in StyledRuns(fmt(err)) : RunEndsWithReset(fmt(err), i)}) = 3

\* What print() writes for the summary and for the help text of an implementor.
SummaryLine(e) == pretty_summary(UFE_summary(e)) \o <<NL>>

HelpLine(e) ==
    IF UFE_helptext(e) # None THEN HELPTEXT_PREFIX \o UFE_helptext(e)[1] \o RESET \o <<NL>>
    ELSE <<>>

\* C22: a reasons segment is emitted only when the reasons are present and
\* non-empty: for an implementor whose reasons() is absent or a present but
\* empty list, pretty_reasons yields no segment and print() writes the summary
\* line and the help line only.
C22_EmptyReasonsEmitNoSegment ==
    (last.op = "UFE::print" /\ NumReasonsOf(UFE_reasons(err)) = 0) =>
        /\ pretty_reasons(UFE_reasons(err)) = None
        /\ written = SummaryLine(err) \o HelpLine(err)

\* The implementor err has overridden none of the three methods.
NoOverride(e) ==
    /\ IsImplementor(e)
    /\ e.override_summary = None /\ e.override_reasons = None /\ e.override_helptext = None

\* The display texts of the causes of error, nearest first.
ChainTexts(error) == [i \in 1..Depth(error) |-> Ancestor(error, i).display]

\* C23: for an implementor that overrides no method, summary() is its display
\* text, reasons() is the display texts of its source chain in walk order
\* (absent when it has no source) and helptext() is absent; converting the same
\* error into a UserFacingError yields that summary and those reasons.
C23_DefaultMethodsAgreeWithConversion ==
    /\ NoOverride(err) =>
         /\ UFE_summary(err) = err.error.display
         /\ UFE_reasons(err) = (IF Depth(err.error) = 0 THEN None
                                ELSE Some(ChainTexts(err.error)))
         /\ UFE_helptext(err) = None
         /\ \A ufe \in {from_box(err.error), from_io_error(err.error), from_ref(err.error),
                        from_result([ok |-> FALSE, error |-> err.error])} :
              ufe.summary = UFE_summary(err) /\ ufe.reasons = UFE_reasons(err)
    /\ (last.op = "into" /\ NoOverride(prev)) =>
         /\ err.summary = UFE_summary(prev)
         /\ err.reasons = UFE_reasons(prev)
         /\ err.helptext = UFE_helptext(prev)

C23_Witness ==
    /\ last.op = "into" /\ NoOverride(prev) /\ Depth(prev.error) = MaxChain
    /\ err.reasons = Some(ChainTexts(prev.error)) /\ Len(err.reasons[1]) = MaxChain

\* What starts a bulleted line in the rendering of a UserError.
UserErrorBullet(c) == colorful("ESC[yellow]", <<"-">>, c) \o <<" ">>

\* The texts of the bulleted lines of the rendering out of a UserError, top to bottom.
UserErrorBulletTexts(out, c) ==
    LET IsUserErrorBullet(line) == StartsWith(line, UserErrorBullet(c))
        bullets == SelectSeq(Lines(out), IsUserErrorBullet)
    IN  [i \in 1..Len(bullets) |->
            SubSeq(bullets[i], Len(UserErrorBullet(c)) + 1, Len(bullets[i]))]

\* C24: UserError::add_reason inserts the new reason at the front of the
\* reasons (a one-element list when they were absent), so after any sequence of
\* add_reason calls on UserError::simple(s) the bullets are rendered in the
\* reverse of the order of the calls.
C24_AddReasonInsertsAtFront ==
    /\ last.op = "add_reason" =>
         /\ err.reasons = Some(<<last.arg>> \o (IF prev.reasons # None THEN prev.reasons[1]
                                                ELSE <<>>))
         /\ err.summary = prev.summary /\ err.subtleties = prev.subtleties
    /\ (trail.ok /\ IsUE(err)) =>
         /\ err.reasons = (IF trail.args = <<>> THEN None ELSE Some(Reverse(trail.args)))
         /\ \A c \in Colors :
              UserErrorBulletTexts(UserError_fmt(err, c), c) = Reverse(trail.args)

C24_Witness ==
    /\ trail.ok /\ IsUE(err) /\ last.op = "add_reason"
    /\ trail.args = << <<"a">>, <<"b">> >>
    /\ UserErrorBulletTexts(UserError_fmt(err, TRUE), TRUE) = << <<"b">>, <<"a">> >>

\* C25: UserError::update_and_push_summary(s) sets the summary to s and makes
\* the previous summary the first rendered reason, followed by the previous
\* reasons in unchanged order; the subtleties are unchanged and there is exactly
\* one reason more.
C25_UpdateAndPushSummary ==
    last.op = "update_and_push_summary" =>
        /\ err.summary = last.arg
        /\ err.subtleties = prev.subtleties
        /\ NumReasons(err) = NumReasons(prev) + 1
        /\ \A c \in Colors :
             /\ UserErrorBulletTexts(UserError_fmt(err, c), c)
                  = <<prev.summary>> \o UserErrorBulletTexts(UserError_fmt(prev, c), c)
             /\ UserError_summary(err, c)
                  = colorful("ESC[white;bg-red;bold]", <<"Error:">>, c) \o <<" ">>
                    \o colorful("ESC[red;bold]", last.arg, c)
             /\ UserError_subtleties(err, c) = UserError_subtleties(prev, c)

C25_Witness ==
    /\ last.op = "update_and_push_summary" /\ last.arg = <<"b">>
    /\ prev.summary = <<"a">> /\ prev.reasons = Some(<< <<"b">> >>)
    /\ prev.subtleties # None /\ prev.subtleties[1] # <<>>
    /\ err.reasons = Some(<< <<"a">>, <<"b">> >>)

\* The UserError e with each present but empty list made absent.
WithoutEmptyLists(e) ==
    [e EXCEPT !.reasons = IF e.reasons = Some(<<>>) THEN None ELSE e.reasons,
              !.subtleties = IF e.subtleties = Some(<<>>) THEN None ELSE e.subtleties]

\* C26: a UserError whose reasons or subtleties are a present but empty list
\* renders exactly like one where that list is absent: no segment for it and no
\* extra newline; with neither reasons nor subtleties the rendering is the
\* summary segment with no trailing newline.
C26_EmptyListRendersLikeAbsent ==
    IsUE(err) =>
        \A c \in Colors :
            /\ UserError_fmt(err, c) = UserError_fmt(WithoutEmptyLists(err), c)
            /\ (NumReasons(err) = 0 /\ NumSubtleties(err) = 0) =>
                 /\ UserError_fmt(err, c) = UserError_summary(err, c)
                 /\ ~Contains(UserError_fmt(err, c), NL)
            /\ err.reasons = Some(<<>>) => UserError_reasons(err, c) = <<>>
            /\ err.subtleties = Some(<<>>) => UserError_subtleties(err, c) = <<>>

C26_Witness ==
    /\ IsUE(err) /\ last.op \in {"UserError::new", "hardcoded"}
    /\ err.reasons = Some(<<>>) /\ err.subtleties = Some(<<>>)
    /\ UserError_fmt(err, TRUE) = UserError_summary(err, TRUE)

\* The number of errors on the chain that starts at source.
ChainLength(source) == IF source = None THEN 0 ELSE 1 + Depth(source[1])

\* The display texts of the errors on the chain that starts at source, in order.
SourceTexts(source) ==
    IF source = None THEN <<>> ELSE <<source[1].display>> \o ChainTexts(source[1])

\* C27: the walk of error_sources terminates on every finite chain: on a chain
\* of N causes it makes exactly N iterations, records each cause exactly once
\* and in order, always can take its next step, and returns only when the
\* current cause has no further cause.  (Each iteration adds one to the
\* iterations made and takes one from the causes left, so the sum stays N.)
C27_ErrorSourcesWalkTerminates ==
    LET N == ChainLength(walk.called_with)
    IN  /\ pc = "error_sources" =>
             /\ walk.iterations + ChainLength(walk.source) = N
             /\ walk.iterations = Len(walk.reasons)
             /\ walk.reasons = SubSeq(SourceTexts(walk.called_with), 1, walk.iterations)
             /\ walk.result = None
             /\ ENABLED (ErrorSourcesIterate \/ ErrorSourcesReturn)
        /\ pc = "walked" =>
             /\ walk.source = None
             /\ walk.iterations = N
             /\ walk.reasons = SourceTexts(walk.called_with)
             /\ walk.result = Some(error_sources(walk.called_with))
             /\ walk.result = Some(IF N = 0 THEN None ELSE Some(walk.reasons))

C27_Witness ==
    /\ pc = "walked" /\ walk.iterations = MaxChain /\ Len(walk.reasons) = MaxChain
    /\ walk.reasons[1] = <<"a">> /\ walk.reasons[MaxChain] = <<"b">>

MutatorOps == {"reason", "push", "update", "help", "clear_reasons", "clear_helptext"}

\* C28: a UserFacingError built by From<Box<dyn Error>>, From<std::io::Error>
\* or From<Result> has the original error as source() and keeps it through every
\* mutator; new() and From<&dyn Error> give no source; the rendered bullets are
\* those of the reasons field alone, so after clear_reasons() the rendering has
\* no bullet while source() is what it was.
C28_SourceKeptThroughMutators ==
    /\ (last.op \in {"from_box", "from_io_error", "from_result"} /\ IsUFE(err)) =>
         Error_source(err) = Some(ConvError)
    /\ last.op = "into" => Error_source(err) = Some(prev.error)
    /\ last.op \in {"new", "from_ref"} => Error_source(err) = None
    /\ last.op \in MutatorOps => Error_source(err) = Error_source(prev)
    /\ IsUFE(err) =>
         BulletTexts(fmt(err)) = (IF err.reasons # None THEN err.reasons[1] ELSE <<>>)
    /\ last.op = "clear_reasons" =>
         /\ BulletLines(fmt(err)) = <<>>
         /\ fmt(err) = fmt(UserFacingError(err.summary, None, err.helptext, None))

C28_Witness ==
    /\ last.op = "clear_reasons"
    /\ prev.reasons # None /\ Len(prev.reasons[1]) = MaxReasons
    /\ Error_source(err) # None /\ Depth(Error_source(err)[1]) = MaxChain
    /\ BulletLines(fmt(err)) = <<>>

====
